---- MODULE Spec2Model ----
(***************************************************************************)
(* A model of pyacq's OpenBCI device node (pyacq/devices/eeg_openBCI.py): *)
(* the acquisition thread OpenBCIThread (run / decode / stop) and the      *)
(* OpenBCI node's lifecycle (_configure, _initialize, _start, _stop,       *)
(* _close), with the serial port and the two output streams as the         *)
(* environment.                                                            *)
(***************************************************************************)
EXTENDS Integers, Sequences, FiniteSets, TLC

(***************************************************************************)
(* Bounds of the model.                                                    *)
(***************************************************************************)
\* one-byte reads (line 53) the serial port delivers over a whole behaviour
MaxSeekBytes == 3
\* calls of OpenBCI._start over a whole behaviour
MaxStarts == 2
\* timeouts of the timer of NumpyDeviceBuffer over a whole behaviour
MaxSends == 5

(***************************************************************************)
(* Program constants.                                                      *)
(***************************************************************************)
START_BYTE == 160
END_BYTE == 192
\* decode: "jj=25", the offset at which the aux block is read
AUX_OFFSET == 25
\* _configure: the default of packet_bsize
DEFAULT_PACKET_BSIZE == 33
\* decode: "if (unpacked[0] >= 127)"
SIGN_TEST == 127
\* NumpyDeviceBuffer._configure: "nloop = 40"
NLOOP == 40

(***************************************************************************)
(* Inputs: the configurations a caller passes to configure.                *)
(***************************************************************************)
ChannelCounts == {2, 8, 9}
AuxCounts == {0, 3}

Min(a, b) == IF a < b THEN a ELSE b

\* OpenBCIThread.__init__: self.packet_bsize = 3 +(nb_channel*3)+(nb_aux*2)
ThreadPacketBsize(c, a) == 3 + (c * 3) + (a * 2)

\* the values of packet_bsize a caller passes: the default, or the derived one
PacketSizes(c, a) == {DEFAULT_PACKET_BSIZE, ThreadPacketBsize(c, a)}

(***************************************************************************)
(* Bytes, Python slices and struct.unpack.                                 *)
(***************************************************************************)
\* data[i:j] of a bytes object (0-based, clipped to the length)
Slice(s, i, j) == SubSeq(s, i + 1, Min(j, Len(s)))

\* struct.unpack('>i', b)[0] for four bytes b: the big-endian word read as a
\* signed 32-bit integer, the first byte carrying the sign (weight -2^31 for its
\* top bit)
UnpackInt32BE(b) ==
    LET hi == IF b[1] >= 128 THEN b[1] - 256 ELSE b[1]
    IN  hi * 16777216 + b[2] * 65536 + b[3] * 256 + b[4]

\* struct.unpack('>h', b)[0] for two bytes b
UnpackInt16BE(b) ==
    LET u == b[1] * 256 + b[2]
    IN  IF u >= 32768 THEN u - 65536 ELSE u

\* np.zeros((1, k)): one row of k zeros
Zeros(k) == [i \in 1..k |-> 0]

(***************************************************************************)
(* OpenBCIThread.decode.  The channel loop reads data[jj:jj+3] from jj=1,  *)
(* the aux loop reads data[jj:jj+2] from jj=25; struct.unpack raises       *)
(* struct.error on a slice of the wrong length, leaving the values         *)
(* assigned so far in place.                                               *)
(***************************************************************************)
\* data_chan = data[jj:jj+3] for channel ii (1-based here), jj = 1 + 3*(ii-1)
ChanField(d, ii) == Slice(d, 1 + 3 * (ii - 1), 1 + 3 * (ii - 1) + 3)

\* data[jj:jj+2] for aux value ii (1-based here), jj = 25 + 2*(ii-1)
AuxField(d, ii) == Slice(d, AUX_OFFSET + 2 * (ii - 1), AUX_OFFSET + 2 * (ii - 1) + 2)

\* the sign prefix: b'\xFF' if unpacked[0] >= 127 else b'\x00'
PreFix(f) == IF f[1] >= SIGN_TEST THEN 255 ELSE 0

\* struct.unpack('>i', pre_fix + data_chan)[0]
DecodeChan(f) == UnpackInt32BE(<<PreFix(f)>> \o f)

\* the first channel (1-based) whose slice makes struct.unpack('3B', ..) raise,
\* c + 1 when there is none
FirstBadChan(d, c) ==
    LET bad == {ii \in 1..c : Len(ChanField(d, ii)) # 3}
    IN  IF bad = {} THEN c + 1 ELSE CHOOSE ii \in bad : \A k \in bad : ii <= k

\* the first aux value (1-based) whose slice makes struct.unpack('>h', ..) raise
FirstBadAux(d, a) ==
    LET bad == {ii \in 1..a : Len(AuxField(d, ii)) # 2}
    IN  IF bad = {} THEN a + 1 ELSE CHOOSE ii \in bad : \A k \in bad : ii <= k

\* decode(data): the rows it leaves and whether it raised
decode(d, c, a, chan0, aux0) ==
    LET kc == FirstBadChan(d, c)
        ka == IF kc <= c THEN 1 ELSE FirstBadAux(d, a)
    IN  [ chan |-> [ii \in 1..c |-> IF ii < kc THEN DecodeChan(ChanField(d, ii))
                                    ELSE chan0[ii]],
          aux  |-> [ii \in 1..a |-> IF ii < ka THEN UnpackInt16BE(AuxField(d, ii))
                                    ELSE aux0[ii]],
          raised |-> (kc <= c \/ ka <= a) ]

(***************************************************************************)
(* The environment's inputs: what the serial port returns.                 *)
(***************************************************************************)
\* the bytes a one-byte read returns
Bytes == {0, START_BYTE, END_BYTE}

\* a body of L bytes, all equal to b
Fill(L, b) == [p \in 1..L |-> b]

\* a body of L bytes whose bytes all differ; its first byte is 0xA0
Marked(L) == [p \in 1..L |-> (157 + 3 * p) % 256]

\* the bodies read(L) returns in full
Bodies(L) == {Fill(L, 0), Marked(L)}

\* what read(L) returns when it returns fewer than L bytes
ShortBodies(L) == {Slice(b, 0, L - 1) : b \in Bodies(L)} \cup {<<>>}

(***************************************************************************)
(* State.                                                                  *)
(***************************************************************************)
VARIABLES
    cpc,              \* the caller's position in the OpenBCI node's lifecycle
    dev,              \* OpenBCI: nb_channel, nb_aux, packet_bsize as configured
    wpc,              \* the thread's position in OpenBCIThread.run
    lock,             \* OpenBCIThread.lock: "free", "worker" or "caller"
    running,          \* OpenBCIThread.running
    n,                \* OpenBCIThread.n
    count_lost_bytes, \* OpenBCIThread.count_lost_bytes
    packet_bsize,     \* OpenBCIThread.packet_bsize
    chan_values,      \* OpenBCIThread.chan_values[0, :]
    aux_values,       \* OpenBCIThread.aux_values[0, :]
    message,          \* run: message, the bytes of the one-byte read
    data,             \* run: data, the bytes of the body read
    last_byte,        \* run: last_byte
    chanOut,          \* outputs['chan']: what was sent, in order
    auxOut,           \* outputs['aux']: what was sent, in order
    log,              \* logger.debug: the messages, in order
    lastCmd,          \* the last command byte written to the serial port
    portOpen,         \* the serial port is open
    delivered,        \* one-byte reads the serial port has answered
    starts,           \* calls of _start so far
    skipped,          \* bytes other than 0xA0 answered to line 53 since the last 0xA0
    kAtStart,         \* the value of skipped when the last 0xA0 was answered
    checked,          \* the flag was checked at least once in this run
    readsSince,       \* one-byte reads answered since the last check of the flag
    emitsSince,       \* sample pairs sent since the last check of the flag
    bpc,              \* the caller's position in the NumpyDeviceBuffer node's lifecycle
    chunksize,        \* NumpyDeviceBuffer.chunksize
    length,           \* NumpyDeviceBuffer.length, the rows of NumpyDeviceBuffer.buffer
    head,             \* NumpyDeviceBuffer.head
    timerActive,      \* NumpyDeviceBuffer.timer is started
    sent              \* NumpyDeviceBuffer.output: what was sent, in order

vars == <<cpc, dev, wpc, lock, running, n, count_lost_bytes, packet_bsize,
          chan_values, aux_values, message, data, last_byte, chanOut, auxOut,
          log, lastCmd, portOpen, delivered, starts, skipped, kAtStart,
          checked, readsSince, emitsSince,
          bpc, chunksize, length, head, timerActive, sent>>

\* the NumpyDeviceBuffer node
bufVars == <<bpc, chunksize, length, head, timerActive, sent>>
\* the OpenBCI node, its thread and their environment
openbciVars == <<cpc, dev, wpc, lock, running, n, count_lost_bytes, packet_bsize,
                 chan_values, aux_values, message, data, last_byte, chanOut, auxOut,
                 log, lastCmd, portOpen, delivered, starts, skipped, kAtStart,
                 checked, readsSince, emitsSince>>

\* the state after NumpyDeviceBuffer.__init__: nothing configured
BufferNew ==
    /\ bpc = "new"
    /\ chunksize = 0
    /\ length = 0
    /\ head = 0
    /\ timerActive = FALSE
    /\ sent = <<>>

\* the fields of the thread object
threadVars == <<running, n, count_lost_bytes, packet_bsize, chan_values, aux_values>>
\* the locals of run
localVars == <<message, data, last_byte>>
\* the outputs and the log
outVars == <<chanOut, auxOut, log>>
\* what the caller owns
callerVars == <<cpc, dev, portOpen, starts>>
\* the history of the reads and of the checks
histVars == <<delivered, skipped, kAtStart, checked, readsSince, emitsSince>>

\* the state after OpenBCI.__init__: nothing configured, no port, no thread
Init ==
    /\ cpc = "new"
    /\ dev = [nb_channel |-> 0, nb_aux |-> 0, packet_bsize |-> 0]
    /\ wpc = "none"
    /\ lock = "free"
    /\ running = FALSE
    /\ n = 0
    /\ count_lost_bytes = 0
    /\ packet_bsize = 0
    /\ chan_values = <<>>
    /\ aux_values = <<>>
    /\ message = <<>>
    /\ data = <<>>
    /\ last_byte = 0
    /\ chanOut = <<>>
    /\ auxOut = <<>>
    /\ log = <<>>
    /\ lastCmd = ""
    /\ portOpen = FALSE
    /\ delivered = 0
    /\ starts = 0
    /\ skipped = 0
    /\ kAtStart = 0
    /\ checked = FALSE
    /\ readsSince = 0
    /\ emitsSince = 0
    /\ BufferNew

(***************************************************************************)
(* The OpenBCI node, in the caller's context.                              *)
(***************************************************************************)
\* _configure: stores its parameters
Configure(c, a, p) ==
    /\ cpc = "new"
    /\ cpc' = "configured"
    /\ dev' = [nb_channel |-> c, nb_aux |-> a, packet_bsize |-> p]
    /\ UNCHANGED <<bufVars, wpc, lock, threadVars, localVars, outVars, lastCmd, portOpen,
                   starts, histVars>>

\* _initialize: opens the port, writes 'v' (reset_port), constructs the thread
Initialize ==
    /\ cpc = "configured"
    /\ cpc' = "ready"
    /\ portOpen' = TRUE
    /\ lastCmd' = "v"
    /\ wpc' = "idle"
    /\ n' = 0
    /\ packet_bsize' = ThreadPacketBsize(dev.nb_channel, dev.nb_aux)
    /\ chan_values' = Zeros(dev.nb_channel)
    /\ aux_values' = Zeros(dev.nb_aux)
    /\ count_lost_bytes' = 0
    /\ running' = FALSE
    /\ lock' = "free"
    /\ UNCHANGED <<bufVars, dev, localVars, outVars, starts, histVars>>

\* the thread is not executing run
ThreadFinished == wpc \in {"idle", "finished", "faulted"}

\* Start as it would be if starting the thread made its counters anew
StartResets ==
    /\ cpc = "ready"
    /\ starts < MaxStarts
    /\ ThreadFinished
    /\ cpc' = "started"
    /\ starts' = starts + 1
    /\ wpc' = "run_lock"
    /\ n' = 0
    /\ count_lost_bytes' = 0
    /\ checked' = FALSE
    /\ readsSince' = 0
    /\ emitsSince' = 0
    /\ UNCHANGED <<bufVars, dev, lock, running, packet_bsize, chan_values, aux_values,
                   localVars, outVars, lastCmd, portOpen, delivered, skipped, kAtStart>>

\* _start: self._thread.start(), which begins run in the thread's context
Start ==
    /\ cpc = "ready"
    /\ starts < MaxStarts
    /\ ThreadFinished
    /\ cpc' = "started"
    /\ starts' = starts + 1
    /\ wpc' = "run_lock"
    /\ checked' = FALSE
    /\ readsSince' = 0
    /\ emitsSince' = 0
    /\ UNCHANGED <<bufVars, dev, lock, threadVars, localVars, outVars, lastCmd, portOpen,
                   delivered, skipped, kAtStart>>

\* _stop, self._thread.stop(), line 103: the call of serial_port.write('s')
StopWriteCall ==
    /\ cpc = "started"
    /\ cpc' = "stop_write_in"
    /\ UNCHANGED <<bufVars, dev, wpc, lock, threadVars, localVars, outVars, lastCmd, portOpen,
                   starts, histVars>>

\* line 103: serial_port.write('s') returns
StopWriteReturn ==
    /\ cpc = "stop_write_in"
    /\ cpc' = "stop_lock"
    /\ lastCmd' = "s"
    /\ UNCHANGED <<bufVars, dev, wpc, lock, threadVars, localVars, outVars, portOpen,
                   starts, histVars>>

\* line 104: with self.lock
StopLock ==
    /\ cpc = "stop_lock"
    /\ lock = "free"
    /\ lock' = "caller"
    /\ cpc' = "stop_clear"
    /\ UNCHANGED <<bufVars, dev, wpc, threadVars, localVars, outVars, lastCmd, portOpen,
                   starts, histVars>>

\* line 105: self.running = False, and the lock is released
StopClear ==
    /\ cpc = "stop_clear"
    /\ running' = FALSE
    /\ lock' = "free"
    /\ cpc' = "wait"
    /\ UNCHANGED <<bufVars, dev, wpc, n, count_lost_bytes, packet_bsize, chan_values,
                   aux_values, localVars, outVars, lastCmd, portOpen, starts, histVars>>

\* Wait as it would be if line 175 did not wait for run to end
WaitNoJoin ==
    /\ cpc = "wait"
    /\ cpc' = "ready"
    /\ UNCHANGED <<bufVars, dev, wpc, lock, threadVars, localVars, outVars, lastCmd, portOpen,
                   starts, histVars>>

\* _stop, line 175: self._thread.wait() returns once run has ended
Wait ==
    /\ cpc = "wait"
    /\ ThreadFinished
    /\ cpc' = "ready"
    /\ UNCHANGED <<bufVars, dev, wpc, lock, threadVars, localVars, outVars, lastCmd, portOpen,
                   starts, histVars>>

\* _close: self.serial_port.close()
Close ==
    /\ cpc = "ready"
    /\ cpc' = "closed"
    /\ portOpen' = FALSE
    /\ UNCHANGED <<bufVars, dev, wpc, lock, threadVars, localVars, outVars, lastCmd,
                   starts, histVars>>

(***************************************************************************)
(* OpenBCIThread.run, in the thread's context.                             *)
(***************************************************************************)
\* line 44: with self.lock
RunLock ==
    /\ wpc = "run_lock"
    /\ lock = "free"
    /\ lock' = "worker"
    /\ wpc' = "run_set"
    /\ UNCHANGED <<bufVars, callerVars, threadVars, localVars, outVars, lastCmd, histVars>>

\* line 45: self.running = True, and the lock is released
RunSetRunning ==
    /\ wpc = "run_set"
    /\ running' = TRUE
    /\ lock' = "free"
    /\ wpc' = "write_b"
    /\ UNCHANGED <<bufVars, callerVars, n, count_lost_bytes, packet_bsize, chan_values,
                   aux_values, localVars, outVars, lastCmd, histVars>>

\* line 47: the call of serial_port.write('b')
WriteBCall ==
    /\ wpc = "write_b"
    /\ wpc' = "write_b_in"
    /\ UNCHANGED <<bufVars, callerVars, lock, threadVars, localVars, outVars, lastCmd, histVars>>

\* line 47: serial_port.write('b') returns
WriteBReturn ==
    /\ wpc = "write_b_in"
    /\ lastCmd' = "b"
    /\ wpc' = "loop_lock"
    /\ UNCHANGED <<bufVars, callerVars, lock, threadVars, localVars, outVars, histVars>>

\* LoopLock as it would be without the mutex: the check is reached unlocked
LoopLockNoMutex ==
    /\ wpc = "loop_lock"
    /\ wpc' = "loop_check"
    /\ UNCHANGED <<bufVars, callerVars, lock, threadVars, localVars, outVars, lastCmd, histVars>>

\* line 49: with self.lock, at the top of the while loop
LoopLock ==
    /\ wpc = "loop_lock"
    /\ lock = "free"
    /\ lock' = "worker"
    /\ wpc' = "loop_check"
    /\ UNCHANGED <<bufVars, callerVars, threadVars, localVars, outVars, lastCmd, histVars>>

\* LoopCheck as it would be if line 50 never found the flag cleared
LoopCheckIgnoresFlag ==
    /\ wpc = "loop_check"
    /\ wpc' = "read1"
    /\ lock' = "free"
    /\ checked' = TRUE
    /\ readsSince' = 0
    /\ emitsSince' = 0
    /\ UNCHANGED <<bufVars, callerVars, threadVars, localVars, outVars, lastCmd,
                   delivered, skipped, kAtStart>>

\* lines 50-51: if not self.running: break; the lock is released either way
LoopCheck ==
    /\ wpc = "loop_check"
    /\ wpc' = IF running THEN "read1" ELSE "finished"
    /\ lock' = "free"
    /\ checked' = TRUE
    /\ readsSince' = 0
    /\ emitsSince' = 0
    /\ UNCHANGED <<bufVars, callerVars, threadVars, localVars, outVars, lastCmd,
                   delivered, skipped, kAtStart>>

\* line 53: the call of serial_port.read()
ReadByteCall ==
    /\ wpc = "read1"
    /\ wpc' = "read1_in"
    /\ UNCHANGED <<bufVars, callerVars, lock, threadVars, localVars, outVars, lastCmd, histVars>>

\* line 53: serial_port.read() returns m, one byte or none
ReadByteReturn(m) ==
    /\ wpc = "read1_in"
    /\ delivered < MaxSeekBytes
    /\ delivered' = delivered + 1
    /\ message' = m
    /\ readsSince' = readsSince + 1
    /\ skipped' = IF Len(m) # 1 THEN skipped
                  ELSE IF m[1] = START_BYTE THEN 0 ELSE skipped + 1
    /\ kAtStart' = IF m = <<START_BYTE>> THEN skipped ELSE kAtStart
    /\ wpc' = "seek"
    /\ UNCHANGED <<bufVars, callerVars, lock, threadVars, data, last_byte, outVars, lastCmd,
                   checked, emitsSince>>

\* Seek as it would be if line 59 were missing: the count is reported, not reset
SeekNoReset ==
    /\ wpc = "seek"
    /\ IF Len(message) # 1
       THEN /\ wpc' = "faulted"
            /\ UNCHANGED <<count_lost_bytes, log>>
       ELSE IF message[1] = START_BYTE
       THEN /\ log' = IF count_lost_bytes # 0
                      THEN Append(log, [msg |-> "lost", count |-> count_lost_bytes])
                      ELSE log
            /\ UNCHANGED count_lost_bytes
            /\ wpc' = "body"
       ELSE /\ count_lost_bytes' = count_lost_bytes + 1
            /\ wpc' = "loop_lock"
            /\ UNCHANGED log
    /\ message' = <<>>
    /\ UNCHANGED <<bufVars, callerVars, lock, running, n, packet_bsize, chan_values,
                   aux_values, data, last_byte, chanOut, auxOut, lastCmd, histVars>>

\* lines 54-59 and 72-73: unpack the byte; on 0xA0 report and reset the lost
\* bytes, otherwise count the byte as lost.  message is not read again before
\* line 53 assigns it anew: the model forgets it here.
Seek ==
    /\ wpc = "seek"
    /\ IF Len(message) # 1
       THEN \* struct.unpack('B', message) raises struct.error
            /\ wpc' = "faulted"
            /\ UNCHANGED <<count_lost_bytes, log>>
       ELSE IF message[1] = START_BYTE
       THEN /\ log' = IF count_lost_bytes # 0
                      THEN Append(log, [msg |-> "lost", count |-> count_lost_bytes])
                      ELSE log
            /\ count_lost_bytes' = 0
            /\ wpc' = "body"
       ELSE /\ count_lost_bytes' = count_lost_bytes + 1
            /\ wpc' = "loop_lock"
            /\ UNCHANGED log
    /\ message' = <<>>
    /\ UNCHANGED <<bufVars, callerVars, lock, running, n, packet_bsize, chan_values,
                   aux_values, data, last_byte, chanOut, auxOut, lastCmd, histVars>>

\* BodyReadSize as it would be if line 61 asked for packet_bsize bytes
BodyReadSizeWhole == packet_bsize

\* line 61: the number of bytes asked of the body read, self.packet_bsize-2
BodyReadSize == packet_bsize - 2

\* line 61: the call of serial_port.read(self.packet_bsize-2)
ReadBodyCall ==
    /\ wpc = "body"
    /\ wpc' = "body_in"
    /\ UNCHANGED <<bufVars, callerVars, lock, threadVars, localVars, outVars, lastCmd, histVars>>

\* line 61: the read returns d, the bytes asked for or fewer
ReadBodyReturn(d) ==
    /\ wpc = "body_in"
    /\ data' = d
    /\ wpc' = "end"
    /\ UNCHANGED <<bufVars, callerVars, lock, threadVars, message, last_byte, outVars,
                   lastCmd, histVars>>

\* line 62: the call of serial_port.read()
ReadEndCall ==
    /\ wpc = "end"
    /\ wpc' = "end_in"
    /\ UNCHANGED <<bufVars, callerVars, lock, threadVars, localVars, outVars, lastCmd, histVars>>

\* line 62: the read returns m and struct.unpack('B', m)[0] is taken
ReadEndReturn(m) ==
    /\ wpc = "end_in"
    /\ IF Len(m) # 1
       THEN \* struct.unpack('B', m) raises struct.error: run ends, its locals with it
            /\ wpc' = "faulted"
            /\ data' = <<>>
            /\ UNCHANGED last_byte
       ELSE /\ last_byte' = m[1]
            /\ wpc' = "validate"
            /\ UNCHANGED data
    /\ UNCHANGED <<bufVars, callerVars, lock, threadVars, message, outVars, lastCmd,
                   histVars>>

\* a read of the serial port raises instead of returning: run ends, its locals
\* with it
ReadFails ==
    /\ wpc \in {"read1_in", "body_in", "end_in"}
    /\ wpc' = "faulted"
    /\ data' = <<>>
    /\ UNCHANGED <<bufVars, callerVars, lock, threadVars, message, last_byte, outVars,
                   lastCmd, histVars>>

\* Validate as it would be if an error raised by decode were swallowed: the
\* rows decode left half-written are sent
ValidateSwallowsError ==
    /\ wpc = "validate"
    /\ IF last_byte = END_BYTE
       THEN LET r == decode(data, Len(chan_values), Len(aux_values),
                            chan_values, aux_values)
            IN  /\ chan_values' = r.chan
                /\ aux_values' = r.aux
                /\ wpc' = "incr"
                /\ UNCHANGED <<data, last_byte, log>>
       ELSE /\ log' = Append(log, [msg |-> "wrong", count |-> 0])
            /\ chan_values' = Zeros(Len(chan_values))
            /\ aux_values' = Zeros(Len(aux_values))
            /\ wpc' = "incr"
            /\ UNCHANGED <<data, last_byte>>
    /\ UNCHANGED <<bufVars, callerVars, lock, running, n, count_lost_bytes, packet_bsize,
                   message, chanOut, auxOut, lastCmd, histVars>>

\* Validate as it would be if a wrong packet were handled as lost bytes: the
\* frame is counted in count_lost_bytes and nothing is sent for it
ValidateCountsLost ==
    /\ wpc = "validate"
    /\ IF last_byte = END_BYTE
       THEN LET r == decode(data, Len(chan_values), Len(aux_values),
                            chan_values, aux_values)
            IN  /\ chan_values' = r.chan
                /\ aux_values' = r.aux
                /\ wpc' = IF r.raised THEN "faulted" ELSE "incr"
                /\ data' = IF r.raised THEN <<>> ELSE data
                /\ last_byte' = IF r.raised THEN 0 ELSE last_byte
                /\ UNCHANGED <<log, count_lost_bytes>>
       ELSE /\ log' = Append(log, [msg |-> "wrong", count |-> 0])
            /\ chan_values' = Zeros(Len(chan_values))
            /\ aux_values' = Zeros(Len(aux_values))
            /\ count_lost_bytes' = 1
            /\ wpc' = "loop_lock"
            /\ data' = <<>>
            /\ last_byte' = 0
    /\ UNCHANGED <<bufVars, callerVars, lock, running, n, packet_bsize,
                   message, chanOut, auxOut, lastCmd, histVars>>

\* Validate as it would be if lines 67-68 were missing: a wrong packet leaves
\* the rows of the frame before
ValidateKeepsStale ==
    /\ wpc = "validate"
    /\ IF last_byte = END_BYTE
       THEN LET r == decode(data, Len(chan_values), Len(aux_values),
                            chan_values, aux_values)
            IN  /\ chan_values' = r.chan
                /\ aux_values' = r.aux
                /\ wpc' = IF r.raised THEN "faulted" ELSE "incr"
                /\ data' = IF r.raised THEN <<>> ELSE data
                /\ last_byte' = IF r.raised THEN 0 ELSE last_byte
                /\ UNCHANGED log
       ELSE /\ log' = Append(log, [msg |-> "wrong", count |-> 0])
            /\ wpc' = "incr"
            /\ UNCHANGED <<chan_values, aux_values, data, last_byte>>
    /\ UNCHANGED <<bufVars, callerVars, lock, running, n, count_lost_bytes, packet_bsize,
                   message, chanOut, auxOut, lastCmd, histVars>>

\* lines 63-68: decode the body if the last byte is 0xC0, zero the rows
\* otherwise.  When decode raises, run ends and its locals with it.
Validate ==
    /\ wpc = "validate"
    /\ IF last_byte = END_BYTE
       THEN LET r == decode(data, Len(chan_values), Len(aux_values),
                            chan_values, aux_values)
            IN  /\ chan_values' = r.chan
                /\ aux_values' = r.aux
                /\ wpc' = IF r.raised THEN "faulted" ELSE "incr"
                /\ data' = IF r.raised THEN <<>> ELSE data
                /\ last_byte' = IF r.raised THEN 0 ELSE last_byte
                /\ UNCHANGED log
       ELSE /\ log' = Append(log, [msg |-> "wrong", count |-> 0])
            /\ chan_values' = Zeros(Len(chan_values))
            /\ aux_values' = Zeros(Len(aux_values))
            /\ wpc' = "incr"
            /\ UNCHANGED <<data, last_byte>>
    /\ UNCHANGED <<bufVars, callerVars, lock, running, n, count_lost_bytes, packet_bsize,
                   message, chanOut, auxOut, lastCmd, histVars>>

\* Incr as it would be if line 69 stood in the branch of the valid packet only
IncrOnlyValid ==
    /\ wpc = "incr"
    /\ n' = IF last_byte = END_BYTE THEN n + 1 ELSE n
    /\ wpc' = "send_chan"
    /\ UNCHANGED <<bufVars, callerVars, lock, running, count_lost_bytes, packet_bsize,
                   chan_values, aux_values, localVars, outVars, lastCmd, histVars>>

\* line 69: self.n += 1
Incr ==
    /\ wpc = "incr"
    /\ n' = n + 1
    /\ wpc' = "send_chan"
    /\ UNCHANGED <<bufVars, callerVars, lock, running, count_lost_bytes, packet_bsize,
                   chan_values, aux_values, localVars, outVars, lastCmd, histVars>>

\* line 70: self.outputs['chan'].send(self.chan_values, index=self.n)
SendChan ==
    /\ wpc = "send_chan"
    /\ chanOut' = Append(chanOut, [index |-> n, row |-> chan_values])
    /\ wpc' = "send_aux"
    /\ UNCHANGED <<bufVars, callerVars, lock, threadVars, localVars, auxOut, log, lastCmd,
                   histVars>>

\* SendAux as it would be if the aux row were sent for a valid packet only
SendAuxOnlyValid ==
    /\ wpc = "send_aux"
    /\ auxOut' = IF last_byte = END_BYTE
                 THEN Append(auxOut, [index |-> n, row |-> aux_values])
                 ELSE auxOut
    /\ emitsSince' = emitsSince + 1
    /\ wpc' = "loop_lock"
    /\ data' = <<>>
    /\ last_byte' = 0
    /\ UNCHANGED <<bufVars, callerVars, lock, threadVars, message, chanOut, log, lastCmd,
                   delivered, skipped, kAtStart, checked, readsSince>>

\* line 71: self.outputs['aux'].send(self.aux_values, index=self.n).  data and
\* last_byte are not read again before lines 61-62 assign them anew: the model
\* forgets them here.
SendAux ==
    /\ wpc = "send_aux"
    /\ auxOut' = Append(auxOut, [index |-> n, row |-> aux_values])
    /\ emitsSince' = emitsSince + 1
    /\ wpc' = "loop_lock"
    /\ data' = <<>>
    /\ last_byte' = 0
    /\ UNCHANGED <<bufVars, callerVars, lock, threadVars, message, chanOut, log, lastCmd,
                   delivered, skipped, kAtStart, checked, readsSince>>

(***************************************************************************)
(* The specification.                                                      *)
(***************************************************************************)
\* what a one-byte read returns: one byte, or nothing
OneByteReads == {<<b>> : b \in Bytes} \cup {<<>>}

Caller ==
    \/ \E c \in ChannelCounts, a \in AuxCounts :
          \E p \in PacketSizes(c, a) : Configure(c, a, p)
    \/ Initialize
    \/ Start
    \/ StopWriteCall
    \/ StopWriteReturn
    \/ StopLock
    \/ StopClear
    \/ Wait
    \/ Close

Worker ==
    \/ RunLock
    \/ RunSetRunning
    \/ WriteBCall
    \/ WriteBReturn
    \/ LoopLock
    \/ LoopCheck
    \/ ReadByteCall
    \/ \E m \in OneByteReads : ReadByteReturn(m)
    \/ Seek
    \/ ReadBodyCall
    \/ \E d \in Bodies(BodyReadSize) \cup ShortBodies(BodyReadSize) :
          ReadBodyReturn(d)
    \/ ReadEndCall
    \/ \E m \in OneByteReads : ReadEndReturn(m)
    \/ ReadFails
    \/ Validate
    \/ Incr
    \/ SendChan
    \/ SendAux

Next == Caller \/ Worker

Spec == Init /\ [][Next]_vars

(***************************************************************************)
(* The same node and thread fed back-to-back well-formed frames only: each *)
(* one-byte read of line 53 returns 0xA0, each body read returns a full    *)
(* body, each read of line 62 returns 0xC0, and no read raises.            *)
(***************************************************************************)
WorkerWellFed ==
    \/ RunLock
    \/ RunSetRunning
    \/ WriteBCall
    \/ WriteBReturn
    \/ LoopLock
    \/ LoopCheck
    \/ ReadByteCall
    \/ ReadByteReturn(<<START_BYTE>>)
    \/ Seek
    \/ ReadBodyCall
    \/ \E d \in Bodies(BodyReadSize) : ReadBodyReturn(d)
    \/ ReadEndCall
    \/ ReadEndReturn(<<END_BYTE>>)
    \/ Validate
    \/ Incr
    \/ SendChan
    \/ SendAux

NextFrames == Caller \/ WorkerWellFed

SpecFrames == Init /\ [][NextFrames]_vars

(***************************************************************************)
(* decode on its own: the thread stands at line 63 with a valid last byte  *)
(* and a body drawn from a set of bodies whose fields cover the sign       *)
(* boundary, and runs to the end of the iteration.                         *)
(***************************************************************************)
\* the 3-byte channel fields of the bodies
DecodeFields ==
    << <<0, 0, 0>>, <<127, 255, 255>>, <<128, 0, 0>>, <<255, 255, 255>>,
       <<0, 0, 1>>, <<126, 255, 255>>, <<1, 2, 3>>, <<127, 0, 0>> >>

\* the 2-byte aux fields of the bodies
DecodeAuxFields ==
    << <<0, 0>>, <<127, 255>>, <<128, 0>>, <<255, 255>>, <<0, 1>>, <<1, 2>> >>

\* body k for c channels and a aux values: the tag k, then channel ii holding
\* field k+ii-1 and aux value jj holding aux field k+jj-1 (cyclically)
DecodeBody(c, a, k) ==
    [p \in 1..(1 + 3 * c + 2 * a) |->
        IF p = 1 THEN k
        ELSE IF p <= 1 + 3 * c
        THEN LET ii == ((p - 2) \div 3) + 1
                 j  == ((p - 2) % 3) + 1
             IN  DecodeFields[((k + ii - 2) % Len(DecodeFields)) + 1][j]
        ELSE LET q  == p - 2 - 3 * c
                 jj == (q \div 2) + 1
                 j  == (q % 2) + 1
             IN  DecodeAuxFields[((k + jj - 2) % Len(DecodeAuxFields)) + 1][j]]

InitDecode ==
    /\ cpc = "started"
    /\ \E c \in ChannelCounts, a \in AuxCounts :
          /\ dev = [nb_channel |-> c, nb_aux |-> a,
                    packet_bsize |-> ThreadPacketBsize(c, a)]
          /\ packet_bsize = ThreadPacketBsize(c, a)
          /\ chan_values = Zeros(c)
          /\ aux_values = Zeros(a)
          /\ \E k \in 1..Len(DecodeFields) : data = DecodeBody(c, a, k)
    /\ wpc = "validate"
    /\ lock = "free"
    /\ running = TRUE
    /\ n = 0
    /\ count_lost_bytes = 0
    /\ message = <<>>
    /\ last_byte = END_BYTE
    /\ chanOut = <<>>
    /\ auxOut = <<>>
    /\ log = <<>>
    /\ lastCmd = "b"
    /\ portOpen = TRUE
    /\ delivered = 1
    /\ starts = 1
    /\ skipped = 0
    /\ kAtStart = 0
    /\ checked = TRUE
    /\ readsSince = 1
    /\ emitsSince = 0
    /\ BufferNew

NextDecode == Validate \/ Incr \/ SendChan \/ SendAux

SpecDecode == InitDecode /\ [][NextDecode]_vars

(***************************************************************************)
(* The NumpyDeviceBuffer node: a timer sends a buffer chunk by chunk, in   *)
(* an endless loop.  A buffer is known by its number of rows; the rows are *)
(* numbered from 0.                                                        *)
(***************************************************************************)
\* the values of chunksize a caller passes to configure
BufChunkSizes == {1, 2, 3}
\* the numbers of rows of the buffers a caller passes to configure
BufferRows == {0, 2, 3, 4, 6}

\* _configure, line 56, with its assert left out: any buffer is accepted
BufConfigureNoAssert(cs, rows) ==
    /\ bpc = "new"
    /\ chunksize' = cs
    /\ length' = rows
    /\ bpc' = "configured"
    /\ UNCHANGED <<openbciVars, head, timerActive, sent>>

\* _configure with a buffer whose number of rows is a multiple of chunksize
BufConfigure(cs, rows) ==
    /\ bpc = "new"
    /\ rows % cs = 0
    /\ chunksize' = cs
    /\ length' = rows
    /\ bpc' = "configured"
    /\ UNCHANGED <<openbciVars, head, timerActive, sent>>

\* _configure with any other buffer: chunksize is stored (line 42), then the
\* assert of line 56 raises and the node is not configured
BufConfigureRejected(cs, rows) ==
    /\ bpc = "new"
    /\ rows % cs # 0
    /\ chunksize' = cs
    /\ UNCHANGED <<openbciVars, bpc, length, head, timerActive, sent>>

\* _configure with buffer=None: a buffer of nloop*chunksize rows is made
BufConfigureDefault(cs) ==
    /\ bpc = "new"
    /\ chunksize' = cs
    /\ length' = NLOOP * cs
    /\ bpc' = "configured"
    /\ UNCHANGED <<openbciVars, head, timerActive, sent>>

\* _initialize: head = 0, and the timer is made
BufInitialize ==
    /\ bpc = "configured"
    /\ head' = 0
    /\ timerActive' = FALSE
    /\ bpc' = "ready"
    /\ UNCHANGED <<openbciVars, chunksize, length, sent>>

\* _start: self.timer.start()
BufStart ==
    /\ bpc = "ready"
    /\ timerActive' = TRUE
    /\ bpc' = "started"
    /\ UNCHANGED <<openbciVars, chunksize, length, head, sent>>

\* _stop: self.timer.stop()
BufStop ==
    /\ bpc \in {"started", "faulted"}
    /\ timerActive' = FALSE
    /\ bpc' = "ready"
    /\ UNCHANGED <<openbciVars, chunksize, length, head, sent>>

\* _close: pass
BufClose ==
    /\ bpc = "ready"
    /\ bpc' = "closed"
    /\ UNCHANGED <<openbciVars, chunksize, length, head, timerActive, sent>>

\* buffer[i1:i2, :]: the rows i1 .. i2-1 that the buffer has
BufferSlice(i1, i2) == [k \in 1..(Min(i2, length) - i1) |-> i1 + k - 1]

\* send_data, on a timeout of the started timer.  With an empty buffer
\* head % length raises ZeroDivisionError (line 75) and nothing is sent.
send_data ==
    /\ timerActive
    /\ Len(sent) < MaxSends
    /\ IF length = 0
       THEN /\ bpc' = "faulted"
            /\ UNCHANGED <<head, sent>>
       ELSE LET i1 == head % length
                i2 == i1 + chunksize
            IN  /\ head' = head + chunksize
                /\ sent' = Append(sent, [rows |-> BufferSlice(i1, i2), index |-> head'])
                /\ UNCHANGED bpc
    /\ UNCHANGED <<openbciVars, chunksize, length, timerActive>>

NextBuffer ==
    \/ \E cs \in BufChunkSizes, rows \in BufferRows : BufConfigure(cs, rows)
    \/ \E cs \in BufChunkSizes, rows \in BufferRows : BufConfigureRejected(cs, rows)
    \/ \E cs \in BufChunkSizes : BufConfigureDefault(cs)
    \/ BufInitialize
    \/ BufStart
    \/ BufStop
    \/ BufClose
    \/ send_data

SpecBuffer == Init /\ [][NextBuffer]_vars

(***************************************************************************)
(* Properties.                                                             *)
(***************************************************************************)
\* the thread is inside the body of run, past its write of running (line 45)
PastRunSet ==
    wpc \in {"write_b", "write_b_in", "loop_lock", "loop_check", "read1", "read1_in",
             "seek", "body", "body_in", "end", "end_in", "validate", "incr",
             "send_chan", "send_aux"}

\* the thread is inside a call of the serial port
WorkerInTransport == wpc \in {"write_b_in", "read1_in", "body_in", "end_in"}

\* the caller is inside a call of the serial port
CallerInTransport == cpc = "stop_write_in"

\* the thread is between the validation of a frame and the end of its emission
Emitting == wpc \in {"incr", "send_chan", "send_aux"}

\* the k-th record of each stream carries index k
IndicesFrom1(out) == \A k \in 1..Len(out) : out[k].index = k

\* the messages of the log about lost bytes
LostLog(l) == SelectSeq(l, LAMBDA e : e.msg = "lost")

\* the reference sign extension of a 3-byte big-endian two's-complement field
SignExtend24(f) ==
    LET v == f[1] * 65536 + f[2] * 256 + f[3]
    IN  IF v >= 8388608 THEN v - 16777216 ELSE v

\* C1: start() followed at once by stop() does not deadlock: once stop() has
\* cleared `running` and waits for the thread, a thread that is past its own
\* write of `running` finds the flag cleared, so that its next check of the flag
\* ends the loop and the wait returns (nothing else ever clears the flag).
C1_StopEndsTheLoop ==
    (cpc = "wait" /\ PastRunSet) => ~running

C3_PairedStreams ==
    (wpc \in {"loop_lock", "loop_check", "finished", "faulted"}) =>
        /\ Len(chanOut) = n
        /\ Len(auxOut) = n
        /\ IndicesFrom1(chanOut)
        /\ IndicesFrom1(auxOut)

\* C3 happens: the thread has ended by a fault after two pairs, one of a wrong
\* packet
C3_Witness ==
    /\ wpc = "faulted"
    /\ n = 2
    /\ Len(auxOut) = 2
    /\ \E i \in 1..Len(log) : log[i].msg = "wrong"

\* C4: a frame whose last byte is not 0xC0 yields an all-zero channel row and
\* an all-zero aux row, whatever the rows held before, sent with the next
\* index; the thread goes on to emit (it does not end).
C4_WrongPacketZeroed ==
    /\ []((Emitting /\ last_byte # END_BYTE) =>
            /\ chan_values = Zeros(dev.nb_channel)
            /\ aux_values = Zeros(dev.nb_aux)
            /\ (wpc = "send_aux" =>
                  chanOut[Len(chanOut)] = [index |-> Len(auxOut) + 1,
                                           row |-> Zeros(dev.nb_channel)]))
    /\ [][/\ (wpc = "validate" /\ last_byte # END_BYTE /\ wpc' # wpc) =>
                (wpc' = "incr" /\ n' = n)
          /\ (wpc = "send_aux" /\ last_byte # END_BYTE /\ wpc' # wpc) =>
                /\ wpc' = "loop_lock"
                /\ auxOut' = Append(auxOut, [index |-> Len(auxOut) + 1,
                                             row |-> Zeros(dev.nb_aux)])]_vars

\* C4 happens: a wrong packet right after a valid packet with non-zero rows
C4_Witness ==
    /\ wpc = "send_aux"
    /\ last_byte # END_BYTE
    /\ Len(chanOut) = 2
    /\ chanOut[1].row # Zeros(dev.nb_channel)
    /\ chanOut[2].row = Zeros(dev.nb_channel)

\* C5: when 0xA0 is read after k other bytes in Seeking, count_lost_bytes is k;
\* k is logged once if k > 0 and not otherwise; count_lost_bytes is 0 while the
\* body is read and emitted; a lost byte sends the thread back to the top of
\* the loop, never out of it.
C5_LostBytes ==
    /\ [](/\ (wpc = "seek" /\ message = <<START_BYTE>>) => count_lost_bytes = kAtStart
          /\ (wpc \in {"body", "body_in", "end", "end_in", "validate"} \/ Emitting)
                => count_lost_bytes = 0)
    /\ [][/\ (wpc = "seek" /\ wpc' = "body") =>
                log' = IF kAtStart > 0
                       THEN Append(log, [msg |-> "lost", count |-> kAtStart])
                       ELSE log
          /\ (LostLog(log') # LostLog(log)) => (wpc = "seek" /\ wpc' = "body")
          /\ (wpc = "seek" /\ Len(message) = 1 /\ message # <<START_BYTE>>
                /\ wpc' # wpc) => wpc' = "loop_lock"]_vars

\* C5 happens: 0xA0 was read after two lost bytes, which were reported
C5_Witness ==
    /\ wpc = "body"
    /\ kAtStart = 2
    /\ count_lost_bytes = 0
    /\ log = <<[msg |-> "lost", count |-> 2]>>

\* C6: the serial port is never used from two contexts at once: the caller is
\* never inside a call of it while the thread is.
C6_TransportExclusive ==
    ~(CallerInTransport /\ WorkerInTransport)

\* C7 as claimed: every check of the flag is made holding the mutex, and
\* between two consecutive checks of one run the thread has sent exactly one
\* sample pair.
C7_CheckPerFrame ==
    /\ (wpc = "loop_check") => lock = "worker"
    /\ (cpc = "stop_clear") => lock = "caller"
    /\ (wpc = "loop_check" /\ checked) => emitsSince = 1

\* C7 as amended: every check of the flag is made holding the mutex that stop()
\* holds when it clears the flag, and between two consecutive checks of one
\* run the thread has read exactly one byte in Seeking: it has sent exactly one
\* sample pair if that byte was 0xA0 and none if it was a lost byte.
C7_CheckPerSeekByte ==
    /\ (wpc = "loop_check") => lock = "worker"
    /\ (cpc = "stop_clear") => lock = "caller"
    /\ (wpc = "loop_check" /\ checked) =>
          /\ readsSince = 1
          /\ emitsSince = IF skipped = 0 THEN 1 ELSE 0
          /\ (skipped > 0 => count_lost_bytes = skipped)

\* C7 (amended) happens: a check right after a lost byte, no pair sent
C7_Witness ==
    /\ wpc = "loop_check"
    /\ checked
    /\ readsSince = 1
    /\ emitsSince = 0
    /\ count_lost_bytes = 2

\* C8: a read that returns fewer bytes than asked for ends the thread without a
\* sample pair for that cycle: no emission follows a body shorter than
\* packet_bsize - 2.
C8_ShortReadIsFatal ==
    Emitting => Len(data) = packet_bsize - 2

\* C9: no configuration is accepted whose stored packet size differs from
\* 3 + 3*nb_channel + 2*nb_aux.
C9_PacketSizeChecked ==
    (cpc # "new") => dev.packet_bsize = 3 + 3 * dev.nb_channel + 2 * dev.nb_aux

\* C10: every channel value decode leaves is the reference two's-complement
\* sign extension of the 3-byte big-endian field of that channel, in order.
C10_SignExtension ==
    Emitting =>
        \A ii \in 1..dev.nb_channel :
            chan_values[ii] = SignExtend24(SubSeq(data, 3 * ii - 1, 3 * ii + 1))

\* the reference reading of a 2-byte big-endian two's-complement field
SignExtend16(f) ==
    LET v == f[1] * 256 + f[2]
    IN  IF v >= 32768 THEN v - 65536 ELSE v

\* C11: for every nb_channel and nb_aux, the aux values decode leaves are the
\* nb_aux consecutive big-endian signed 16-bit integers that start at body
\* offset 1 + 3*nb_channel, right after the channel block, in order.
C11_AuxOffset ==
    Emitting =>
        \A jj \in 1..dev.nb_aux :
            aux_values[jj] =
                SignExtend16(SubSeq(data, 3 * dev.nb_channel + 2 * jj,
                                          3 * dev.nb_channel + 2 * jj + 1))

\* the thread is at the top of its loop or has left it
AtLoopTop == wpc \in {"loop_lock", "loop_check", "finished"}

\* C12: fed back-to-back well-formed frames, the thread sends exactly one pair
\* per frame through the branch of the valid packet (no wrong packet, no lost
\* byte, no fault), in order, the first with index 1; for nb_channel=8,
\* nb_aux=3 and an all-zero frame the first pair is [0]*8 and [0]*3, index 1.
C12_OnePairPerFrame ==
    /\ wpc # "faulted"
    /\ log = <<>>
    /\ count_lost_bytes = 0
    /\ IndicesFrom1(chanOut)
    /\ IndicesFrom1(auxOut)
    /\ Emitting => last_byte = END_BYTE
    /\ AtLoopTop => (Len(chanOut) = delivered /\ Len(auxOut) = delivered)
    /\ (/\ wpc = "send_aux"
        /\ delivered = 1
        /\ dev.nb_channel = 8
        /\ dev.nb_aux = 3
        /\ data = Fill(31, 0))
          => (chanOut = <<[index |-> 1, row |-> Zeros(8)]>> /\ aux_values = Zeros(3))

\* C15 as claimed: fed well-formed frames, the body read after 0xA0 takes
\* 3 + 3*nb_channel + 2*nb_aux bytes, and the read after it one byte.
C15_BodyIsPacketSize ==
    (wpc \in {"end", "end_in", "validate"} \/ Emitting) =>
        Len(data) = 3 + 3 * dev.nb_channel + 2 * dev.nb_aux

\* C15 as amended: fed well-formed frames, the body read after 0xA0 takes
\* 1 + 3*nb_channel + 2*nb_aux bytes (the packet size 3 + 3*nb_channel +
\* 2*nb_aux less the two sentinels), and the read after it takes one byte, the
\* candidate for 0xC0, after which the frame is validated.
C15_BodyIsPacketSizeLessSentinels ==
    /\ []((wpc \in {"end", "end_in", "validate"} \/ Emitting) =>
            Len(data) = 1 + 3 * dev.nb_channel + 2 * dev.nb_aux)
    /\ [][/\ (wpc = "body_in" /\ wpc' # wpc) =>
                (wpc' = "end" /\ Len(data') = ThreadPacketBsize(dev.nb_channel, dev.nb_aux) - 2)
          /\ (wpc = "end_in" /\ wpc' # wpc) =>
                (wpc' = "validate" /\ data' = data)]_vars

\* C15 (amended) happens: a 34-byte body was read for 9 channels and 3 aux
\* values, and the byte after it
C15_Witness ==
    /\ wpc = "validate"
    /\ dev.nb_channel = 9
    /\ dev.nb_aux = 3
    /\ Len(data) = 34
    /\ last_byte = END_BYTE

\* C13: once _stop has returned (and after _close), run has ended: the thread
\* is in no call of the serial port and sends nothing, and the port is never
\* closed while run executes.
C13_StoppedMeansExited ==
    /\ []((cpc \in {"ready", "closed"}) => (ThreadFinished /\ ~WorkerInTransport))
    /\ []((cpc # "new" /\ cpc # "configured" /\ ~portOpen) => ThreadFinished)
    /\ [][(cpc \in {"ready", "closed"}) =>
              /\ chanOut' = chanOut
              /\ auxOut' = auxOut
              /\ ~WorkerInTransport']_vars

\* C13 happens: the port was closed after a run that sent a pair and was stopped
C13_Witness ==
    /\ cpc = "closed"
    /\ ~portOpen
    /\ wpc = "finished"
    /\ Len(auxOut) >= 1

\* C14: the rows sent for a frame whose last byte is 0xC0 are what decode makes
\* of every field of that frame's body, none left from an earlier frame; the
\* rows sent otherwise are all zero; the rows change only in the step that
\* follows the test of the last byte; what is sent is these rows.
C14_WholeDecodeOrZeros ==
    /\ [](Emitting =>
            /\ (last_byte = END_BYTE =>
                  /\ \A ii \in 1..dev.nb_channel :
                        /\ Len(ChanField(data, ii)) = 3
                        /\ chan_values[ii] = DecodeChan(ChanField(data, ii))
                  /\ \A jj \in 1..dev.nb_aux :
                        /\ Len(AuxField(data, jj)) = 2
                        /\ aux_values[jj] = UnpackInt16BE(AuxField(data, jj)))
            /\ (last_byte # END_BYTE =>
                  /\ chan_values = Zeros(dev.nb_channel)
                  /\ aux_values = Zeros(dev.nb_aux))
            /\ (wpc = "send_aux" => chanOut[Len(chanOut)].row = chan_values))
    /\ [][/\ (chan_values' # chan_values \/ aux_values' # aux_values) =>
                (wpc = "validate" \/ cpc = "configured")
          /\ (wpc = "validate" /\ last_byte # END_BYTE) =>
                (chan_values' = chan_values \/ chan_values' = Zeros(dev.nb_channel))
          /\ (auxOut' # auxOut) =>
                auxOut' = Append(auxOut, [index |-> n, row |-> aux_values])]_vars

\* C14 happens: a valid all-zero frame is sent right after a valid frame with
\* non-zero rows
C14_Witness ==
    /\ wpc = "send_aux"
    /\ last_byte = END_BYTE
    /\ Len(chanOut) = 2
    /\ chanOut[1].row # Zeros(dev.nb_channel)
    /\ chanOut[2].row = Zeros(dev.nb_channel)
    /\ data = Fill(Len(data), 0)
    /\ Len(data) > 0

\* C16: when the last byte of a frame is not 0xC0, the thread goes straight to
\* the emission and back to the top of the loop: the body and the last byte are
\* not looked at again (the body read follows only a one-byte read of 0xA0 in
\* Seeking, `message` comes only from that one-byte read) and are not counted
\* in count_lost_bytes, which stays 0 until the next one-byte read.
C16_NoResync ==
    /\ []((Emitting /\ last_byte # END_BYTE) =>
              (count_lost_bytes = 0 /\ message = <<>>))
    /\ [][/\ (wpc = "validate" /\ last_byte # END_BYTE /\ wpc' # wpc) =>
                (wpc' = "incr" /\ count_lost_bytes' = 0 /\ LostLog(log') = LostLog(log))
          /\ (wpc = "incr" /\ wpc' # wpc) => wpc' = "send_chan"
          /\ (wpc = "send_chan" /\ wpc' # wpc) => wpc' = "send_aux"
          /\ (wpc = "send_aux" /\ wpc' # wpc) => (wpc' = "loop_lock" /\ count_lost_bytes' = 0)
          /\ (wpc \in {"loop_lock", "loop_check", "read1"}) =>
                (count_lost_bytes' = count_lost_bytes \/ cpc = "configured")
          /\ (wpc' = "body" /\ wpc # "body") => (wpc = "seek" /\ message = <<START_BYTE>>)
          /\ (message' # message /\ message' # <<>>) => wpc = "read1_in"
          /\ (wpc' = "read1_in" /\ wpc # wpc') => wpc = "read1"]_vars

\* C16 happens: the pair of a frame whose body begins with 0xA0 and whose last
\* byte is 0xA0, not 0xC0, is being sent, nothing counted as lost
C16_Witness ==
    /\ wpc = "send_aux"
    /\ last_byte = START_BYTE
    /\ Len(data) > 0
    /\ data[1] = START_BYTE
    /\ count_lost_bytes = 0
    /\ LostLog(log) = <<>>

\* C17: stop writes 's' and only then, holding the lock, clears `running`; once
\* the flag is cleared with the thread inside its loop it stays cleared, the
\* thread sends at most one more pair (none after that one), and its next check
\* of the flag ends the loop.
C17_StopSeenAtNextCheck ==
    /\ []((~running /\ PastRunSet /\ emitsSince >= 1) =>
              (emitsSince = 1 /\ wpc \in {"loop_lock", "loop_check"}))
    /\ [][/\ (cpc = "stop_write_in" /\ cpc' # cpc) =>
                (lastCmd' = "s" /\ cpc' = "stop_lock" /\ running' = running)
          /\ (cpc' = "stop_clear" /\ cpc # cpc') => (cpc = "stop_lock" /\ running' = running)
          /\ (running /\ ~running') => (cpc = "stop_clear" /\ lock = "caller")
          /\ (~running /\ PastRunSet) => ~running'
          /\ (~running /\ PastRunSet /\ (auxOut' # auxOut \/ chanOut' # chanOut)) =>
                (emitsSince = 0 /\ wpc \in {"send_chan", "send_aux"})
          /\ (~running /\ wpc = "loop_check" /\ wpc' # wpc) => wpc' = "finished"]_vars

\* C17 happens: the flag was cleared while the thread was in a frame, whose
\* pair it is about to send
C17_Witness ==
    /\ cpc = "wait"
    /\ ~running
    /\ lastCmd = "s"
    /\ wpc = "send_chan"
    /\ emitsSince = 0

\* C18: after one start and one stop, once run has ended, the last command
\* written to the serial port is 's'.
C18_LastCommandIsStop ==
    (starts = 1 /\ cpc \in {"wait", "ready", "closed"} /\ wpc = "finished") =>
        lastCmd = "s"

\* C19: start and stop leave n and count_lost_bytes as they are: n never goes
\* down, count_lost_bytes changes only in Seeking, a run begins with n equal to
\* the number of pairs sent so far, and the indices sent over all runs are
\* 1, 2, 3, ...
C19_CountersSurviveRestart ==
    /\ [](/\ IndicesFrom1(chanOut)
          /\ IndicesFrom1(auxOut)
          /\ (wpc = "send_chan" => n = Len(chanOut) + 1)
          /\ (wpc = "run_lock" => (n = Len(chanOut) /\ n = Len(auxOut))))
    /\ [][(cpc # "configured") =>
              /\ n' \in {n, n + 1}
              /\ (cpc' # cpc) => (n' = n /\ count_lost_bytes' = count_lost_bytes)
              /\ (count_lost_bytes' # count_lost_bytes) => wpc = "seek"]_vars

\* C19 happens: the thread is started a second time with a pair sent and a
\* lost byte counted in its first run
C19_Witness ==
    /\ starts = 2
    /\ wpc = "run_lock"
    /\ n = 1
    /\ count_lost_bytes = 1

\* what the j-th call of send_data is to send: chunksize rows from row
\* ((j-1)*chunksize) mod length on, none past the end, with index j*chunksize
ChunkOf(j) ==
    [rows  |-> [k \in 1..chunksize |-> (((j - 1) * chunksize) % length) + k - 1],
     index |-> j * chunksize]

\* C20 as claimed: for every buffer whose number of rows is a multiple of
\* chunksize, no call of send_data fails, and the j-th sends exactly chunksize
\* rows from row ((j-1)*chunksize) mod length on, none past the end of the
\* buffer, with index j*chunksize.
C20_ChunksWrap ==
    (bpc \notin {"new", "configured"}) =>
        /\ bpc # "faulted"
        /\ head = Len(sent) * chunksize
        /\ \A j \in 1..Len(sent) :
              /\ sent[j] = ChunkOf(j)
              /\ sent[j].rows[chunksize] < length

\* C20 as amended: the same for every buffer that is not empty.
C20_ChunksWrapNonEmpty ==
    (bpc \notin {"new", "configured"} /\ length > 0) =>
        /\ bpc # "faulted"
        /\ head = Len(sent) * chunksize
        /\ \A j \in 1..Len(sent) :
              /\ sent[j] = ChunkOf(j)
              /\ sent[j].rows[chunksize] < length

\* C20 (amended) happens: a buffer of 4 rows sent by chunks of 2 has wrapped,
\* its third chunk is rows 0 and 1 again, and the timer has been stopped
C20_Witness ==
    /\ bpc = "ready"
    /\ length = 4
    /\ chunksize = 2
    /\ Len(sent) = 3
    /\ sent[3] = [rows |-> <<0, 1>>, index |-> 6]

====
